---- MODULE Spec2Model ----
(***************************************************************************)
(* State-machine model of the audio diagnostic pipeline:                   *)
(*   backend/main.py analyze_audio, services/inference.py run_inference,   *)
(*   audio/convert.py webm_to_wav, utils/vibration.py and                  *)
(*   ml_model_example.py generate_vibration_data.                          *)
(*                                                                         *)
(* Numbers.  Raw model scores are integers counted in units of 1e-6 (the   *)
(* lower clip bound of run_inference), so 1.0 is 1000000.  A probability   *)
(* or confidence is the exact rational [num, den]; the code holds its      *)
(* float32 rounding.  Where a truncation int(..) lands exactly on an       *)
(* integer and the operand is not exactly representable, the float result  *)
(* may be that integer or the one below: both outcomes are kept.           *)
(* Values rounded to 4 decimals are integers counted in units of 1e-4.     *)
(***************************************************************************)
EXTENDS Integers, Sequences, FiniteSets, TLC

\* ---------------------------------------------------------------- bounds
MaxHot == 2          \* raw score vectors have at most MaxHot non-zero entries
MaxNames == 2        \* size of the pool of temporary file names
MaxNoise == 1        \* np.random draws are abstracted to 0..MaxNoise
ConfDen == 100       \* grid of the stubbed confidences: 0/ConfDen .. ConfDen/ConfDen
MaxFrames == 320     \* largest number of STFT frames of a clip
MaxThreads == 2      \* threads that call get_model_handler
MaxLoads == 3        \* constructions of the handler that are begun
MaxSamples == 7      \* longest sample buffer read from a clip
MaxOutputs == 4      \* longest output vector given to interpret_prediction
MaxWorkers == 2      \* worker processes that run webm_to_wav at a time

\* ------------------------------------------------------ program constants
ClipLo == 1          \* np.clip lower bound 1e-6, in units of 1e-6
ClipHi == 1000000    \* np.clip upper bound 1.0, in units of 1e-6
QuickPoints == 100
DeepPoints == 300
TARGET_SIZE == 128
TARGET_DURATION == 3 \* seconds
HopLength == 512     \* hop of librosa.feature.mfcc, in samples
Epsilon == 1         \* 1e-6 of the normalisation, in units of 1e-6
\* 50 * 1024 * 1024 in src/main.py and backend_example.py
MAX_SIZE == 50 * 1024 * 1024

CLASSES ==
  << "normal", "misfire", "buka_suara_mesin", "oli_rendah", "knocking",
     "pengapian_buruk", "aki_tekor", "power_steering", "serpentine_belt" >>

ISSUE_MAP ==
  ( "misfire" :>
      [ severity |-> "high", component |-> "Sistem Pembakaran",
        description |-> "Terjadi misfire pada mesin",
        recommendation |-> "Periksa busi, injector, dan sistem bahan bakar" ] ) @@
  ( "buka_suara_mesin" :>
      [ severity |-> "medium", component |-> "Celah Mesin",
        description |-> "Suara mesin terbuka tidak normal",
        recommendation |-> "Periksa celah katup dan mounting mesin" ] ) @@
  ( "oli_rendah" :>
      [ severity |-> "medium", component |-> "Pelumasan",
        description |-> "Indikasi oli rendah atau aus",
        recommendation |-> "Cek dan tambah oli mesin" ] ) @@
  ( "knocking" :>
      [ severity |-> "high", component |-> "Ruang Bakar",
        description |-> "Knocking terdeteksi",
        recommendation |-> "Gunakan BBM oktan lebih tinggi dan cek timing pengapian" ] ) @@
  ( "pengapian_buruk" :>
      [ severity |-> "medium", component |-> "Pengapian",
        description |-> "Sistem pengapian tidak optimal",
        recommendation |-> "Periksa koil dan busi" ] )

\* 0.60
VALID_CONFIDENCE_THRESHOLD == [ num |-> 60, den |-> 100 ]

\* ------------------------------------------------------------ input sets
\* the mode form field: the two documented values and one other
Modes == { "quick", "deep", "fast" }
\* if mode not in ["quick", "deep"] (src/main.py, backend_example.py)
ValidModes == { "quick", "deep" }

\* what the uploaded bytes are: decodable audio, or bytes ffmpeg cannot parse
AudioKinds == { "audio", "garbage" }

\* raw scores a model can emit: 0, 12e-6, 1.0, and 2.0 (above the clip bound)
ScoreValues == { 0, 12, ClipHi, 2 * ClipHi }

Names == 1 .. MaxNames

\* ------------------------------------------------------- rational helpers
Rat(n, d) == [ num |-> n, den |-> d ]

\* a >= b (equal denominators are compared without cross-multiplying)
RatGe(a, b) ==
  IF a.den = b.den THEN a.num >= b.num ELSE a.num * b.den >= b.num * a.den

\* a multiple of 1/8: held exactly by float32, and its products with 10 and
\* 100 are exact
Representable(c) == (8 * c.num) % c.den = 0

Max(a, b) == IF a >= b THEN a ELSE b

\* round(x, 4) of Python (ties to even), result in units of 1e-4
Round4(c) ==
  LET a1 == (c.num * 100) \div c.den
      r1 == (c.num * 100) % c.den
      a2 == (r1 * 100) \div c.den
      r2 == (r1 * 100) % c.den
      q  == a1 * 100 + a2
  IN  IF 2 * r2 > c.den THEN q + 1
      ELSE IF 2 * r2 < c.den THEN q
      ELSE IF q % 2 = 0 THEN q ELSE q + 1

RECURSIVE SumSeq(_)
SumSeq(s) == IF s = << >> THEN 0 ELSE Head(s) + SumSeq(Tail(s))

\* ---------------------------------------------------------------- state
VARIABLES
  pc,              \* position of the request handler
  mode,            \* form field "mode"
  audio,           \* kind of the uploaded bytes
  stages,          \* stages of the pipeline that ran for the current request
  fs,              \* files present in the temporary directory
  webm_path,       \* name drawn by NamedTemporaryFile (0: none)
  exc,             \* exception in flight inside run_inference ("" if none)
  preds,           \* output of model.predict after np.squeeze
  label,
  confidence,
  probabilities,
  issues,
  overall_health,
  vibration_data,
  response,
  frames,          \* magnitude.shape[1] in ml_model_example
  loop_i,          \* loop variable i of the downsampling loop
  returned,        \* what the call of run_inference gave the handler
  endpoint,        \* the application that serves the request
  size,            \* len(audio_bytes)
  filename,        \* file.filename
  prev,            \* the request answered before this one, when it is replayed
  issue_map,       \* the module-level dictionary ISSUE_MAP
  classes,         \* the module-level list CLASSES
  variant,         \* which preprocess.py runs extract_features
  sr,              \* sample rate given by sf.read
  y_in,            \* the mono buffer as sf.read gave it
  y,               \* sample buffer
  mfcc,            \* the coefficient matrix, by its shape and its deviation
  tensor,          \* what extract_features returns
  model_handler,   \* the global _model_handler (0: None)
  hpc,             \* position of each thread inside get_model_handler
  hnew,            \* the instance a thread has constructed and not yet assigned
  loads,           \* count of constructions begun, completed and failed
  handed,          \* instances that calls of get_model_handler returned
  cpc,             \* position of each worker inside webm_to_wav
  cpath,           \* the temporary name each worker holds (0: none)
  tmpfiles,        \* the shared temporary directory: name, suffix, writer
  trespass         \* a worker touched a file of another running conversion

vars ==
  << pc, mode, audio, stages, fs, webm_path, exc, preds, label, confidence,
     probabilities, issues, overall_health, vibration_data, response, frames, loop_i, returned,
     endpoint, size, filename, prev, issue_map, classes, variant, sr, y_in, y, mfcc,
     tensor, model_handler, hpc, hnew, loads, handed, cpc, cpath, tmpfiles,
     trespass >>

Request == << endpoint, size, filename >>
Tables == << issue_map, classes >>
Extraction == << variant, sr, y_in, y, mfcc, tensor >>
Singleton == << model_handler, hpc, hnew, loads, handed >>
Conversions == << cpc, cpath, tmpfiles, trespass >>

\* what an action of the backend handler leaves alone outside its own state
Outside == << Request, Tables, prev, Extraction, Singleton, Conversions >>

NoPrev == [ used |-> FALSE ]
NoMfcc == [ rows |-> 0, cols |-> 0, std |-> 0 ]
NoTensor == [ shape |-> << >>, finite |-> TRUE ]
NoLoads == [ begun |-> 0, completed |-> 0, failed |-> 0, retried |-> FALSE ]
Threads == 1 .. MaxThreads
Workers == 1 .. MaxWorkers

NoPreds == [ ndim |-> 0, scores |-> << >> ]
NoVibration == [ len |-> 0, noise |-> 0 ]
NoResponse == [ status |-> 0 ]
EmptyMap == [ c \in {} |-> 0 ]
NoReturn == [ raised |-> FALSE, label |-> "", confidence |-> [ num |-> 0, den |-> 1 ] ]

WebmFile(n) == << n, "webm" >>
\* wav_path = webm_path.replace(".webm", ".wav")
WavFile(n) == << n, "wav" >>


TypeSketch ==
  /\ pc \in { "idle", "read", "webm_write", "ffmpeg", "open_wav", "rm_webm",
              "rm_wav", "extract", "predict", "validate", "normalize",
              "except", "gate", "health", "vibration", "respond", "done",
              "vib_loop", "vib_except", "vib_done", "vib_raised",
              "check_mode", "check_name", "api_read", "check_size",
              "api_except", "preprocess", "dummy_predict", "analyze_data",
              "ex_fix", "ex_mfcc", "ex_normalize", "ex_resize", "ex_shape",
              "ex_done", "ex_raised" }
  /\ loop_i \in 0 .. MaxFrames + DeepPoints
  /\ mode \in Modes \cup { "" }
  /\ webm_path \in Names \cup { 0 }

Init ==
  /\ pc = "idle"
  /\ mode = ""
  /\ audio = ""
  /\ stages = {}
  /\ fs = {}
  /\ webm_path = 0
  /\ exc = ""
  /\ preds = NoPreds
  /\ label = ""
  /\ confidence = Rat(0, 1)
  /\ probabilities = EmptyMap
  /\ issues = << >>
  /\ overall_health = 0
  /\ vibration_data = NoVibration
  /\ response = NoResponse
  /\ frames = 0
  /\ loop_i = 0
  /\ returned = NoReturn
  /\ endpoint = ""
  /\ size = 0
  /\ filename = ""
  /\ prev = NoPrev
  /\ issue_map = ISSUE_MAP
  /\ classes = CLASSES
  /\ variant = ""
  /\ sr = 0
  /\ y_in = << >>
  /\ y = << >>
  /\ mfcc = NoMfcc
  /\ tensor = NoTensor
  /\ model_handler = 0
  /\ hpc = [ t \in Threads |-> "idle" ]
  /\ hnew = [ t \in Threads |-> 0 ]
  /\ loads = NoLoads
  /\ handed = {}
  /\ cpc = [ w \in Workers |-> "idle" ]
  /\ cpath = [ w \in Workers |-> 0 ]
  /\ tmpfiles = {}
  /\ trespass = FALSE

\* ------------------------------------------------- services/inference.py
\* variant: np.maximum(preds, 1e-6), no upper bound
ClipLowerOnly(v) == IF v < ClipLo THEN ClipLo ELSE v

\* variant: np.minimum(preds, 1.0), no lower bound
ClipUpperOnly(v) == IF v > ClipHi THEN ClipHi ELSE v

Clip(v) == IF v < ClipLo THEN ClipLo ELSE IF v > ClipHi THEN ClipHi ELSE v

\* variant: np.clip(preds, 0.0, 1.0), a zero score stays zero
ClippedFromZero(scores) ==
  [ i \in DOMAIN scores |-> IF scores[i] > ClipHi THEN ClipHi ELSE scores[i] ]

\* np.clip(preds, 1e-6, 1.0)
Clipped(scores) == [ i \in DOMAIN scores |-> Clip(scores[i]) ]

\* variant: the division by the sum is left out
NormalizedNoDivision(scores) ==
  LET c == Clipped(scores)
  IN  [ i \in DOMAIN scores |-> Rat(c[i], ClipHi) ]

\* preds / np.sum(preds)
Normalized(scores) ==
  LET c == Clipped(scores)
      total == SumSeq(c)
  IN  [ i \in DOMAIN scores |-> Rat(c[i], total) ]

\* variant: the last index that holds the maximum
ArgMaxLast(p) ==
  CHOOSE i \in DOMAIN p :
    /\ \A j \in DOMAIN p : RatGe(p[i], p[j])
    /\ \A j \in DOMAIN p : j > i => ~RatGe(p[j], p[i])

\* np.argmax: the first index that holds the maximum
ArgMax(p) ==
  CHOOSE i \in DOMAIN p :
    /\ \A j \in DOMAIN p : RatGe(p[i], p[j])
    /\ \A j \in DOMAIN p : j < i => ~RatGe(p[j], p[i])

\* { CLASSES[i]: round(float(preds[i]), 4) for i in range(len(CLASSES)) }
Probabilities(p) ==
  [ c \in { classes[i] : i \in 1 .. Len(classes) } |->
      Round4(p[CHOOSE i \in 1 .. Len(classes) : classes[i] = c]) ]

\* preds.ndim != 1 or len(preds) != len(CLASSES)
InvalidOutput(p) == p.ndim # 1 \/ Len(p.scores) # Len(classes)

\* sets of indices that carry a non-zero raw score
HotSets(n) == { S \in SUBSET (1 .. n) : Cardinality(S) <= MaxHot }

\* what model.predict can return, after np.squeeze: a vector of the catalog
\* length, a vector one shorter or one longer, a scalar, a matrix
ModelOutputs ==
  { [ ndim |-> 1, scores |-> [ i \in 1 .. Len(CLASSES) |-> IF i \in S THEN f[i] ELSE 0 ] ] :
      <<S, f>> \in UNION { { <<T, g>> : g \in [ T -> ScoreValues \ { 0 } ] } :
                             T \in HotSets(Len(CLASSES)) } }
  \cup
  { [ ndim |-> 1, scores |-> [ i \in 1 .. n |-> IF i = h THEN ClipHi ELSE 0 ] ] :
      <<n, h>> \in { <<m, k>> \in { Len(CLASSES) - 1, Len(CLASSES) + 1 } \X
                                   (1 .. Len(CLASSES) + 1) : k <= m } }
  \cup
  { [ ndim |-> d, scores |-> << >> ] : d \in { 0, 2 } }

\* ------------------------------------------------------- backend/main.py
\* variant: the threshold is exclusive
GatePassesStrict(l, c) ==
  l \in DOMAIN issue_map /\ ~RatGe(VALID_CONFIDENCE_THRESHOLD, c)

\* label in ISSUE_MAP and confidence >= VALID_CONFIDENCE_THRESHOLD
GatePasses(l, c) == l \in DOMAIN issue_map /\ RatGe(c, VALID_CONFIDENCE_THRESHOLD)

\* variant: the issue is the copy alone, "id" is not set
IssueOfWithoutId(l) == issue_map[l]

\* issue = ISSUE_MAP[label].copy(); issue["id"] = label
IssueOf(l) == ( "id" :> l ) @@ issue_map[l]

\* variant: without .copy() the issue is the entry of the table itself, and
\* the write of "id" lands in the table
IssueMapAfterIssueAliased(map, l) == [ map EXCEPT ![l] = ( "id" :> l ) @@ map[l] ]

\* ISSUE_MAP after issue = ISSUE_MAP[label].copy(); issue["id"] = label: the
\* write goes to the copy
IssueMapAfterIssue(map, l) == map

\* int(x) of a float whose exact value is n/d: the truncation, or one less
\* when the exact value is an integer the float computation may fall short of
IntOutcomes(n, d, exact) ==
  IF n % d = 0 /\ ~exact /\ n > 0 THEN { n \div d - 1, n \div d } ELSE { n \div d }

\* variant: the confidence of a normal label is scaled by 100 instead of 10
HealthOutcomesUnscaled(l, c) ==
  IF l = "normal"
  THEN { 90 + k : k \in IntOutcomes(100 * c.num, c.den, Representable(c)) }
  ELSE { Max(30, k) : k \in IntOutcomes(100 * (c.den - c.num), c.den, Representable(c)) }

\* variant: round(..) in place of int(..) for a normal label
HealthOutcomesRounded(l, c) ==
  IF l = "normal"
  THEN { 90 + (20 * c.num + c.den) \div (2 * c.den) }
  ELSE { Max(30, k) : k \in IntOutcomes(100 * (c.den - c.num), c.den, Representable(c)) }

\* variant: the health of a normal label falls as the confidence rises
HealthOutcomesFalling(l, c) ==
  IF l = "normal"
  THEN { 100 - k : k \in IntOutcomes(10 * c.num, c.den, Representable(c)) }
  ELSE { Max(30, k) : k \in IntOutcomes(100 * (c.den - c.num), c.den, Representable(c)) }

\* variant: a fault label has no floor of 30
HealthOutcomesNoFloor(l, c) ==
  IF l = "normal"
  THEN { 90 + k : k \in IntOutcomes(10 * c.num, c.den, Representable(c)) }
  ELSE IntOutcomes(100 * (c.den - c.num), c.den, Representable(c))

\* if label == "normal": int(90 + confidence * 10)
\* else: max(30, int((1 - confidence) * 100))
HealthOutcomes(l, c) ==
  IF l = "normal"
  THEN { 90 + k : k \in IntOutcomes(10 * c.num, c.den, Representable(c)) }
  ELSE { Max(30, k) : k \in IntOutcomes(100 * (c.den - c.num), c.den, Representable(c)) }

\* 100 if mode == "quick" else 300
PointBudget(m) == IF m = "quick" THEN QuickPoints ELSE DeepPoints

\* variant: the jitter moves the number of points
GenerateVibrationDataJitterLength(length, noise) ==
  [ len |-> Max(0, length) + noise, noise |-> noise ]

\* utils/vibration.py: one point per i in range(length), amplitude with
\* np.random.rand() jitter
GenerateVibrationData(length, noise) == [ len |-> Max(0, length), noise |-> noise ]


\* ------------------------------------------- the request handler, by step
\* the health logic is about to run on the label and the confidence it ran
\* on in the request before
SameOperands ==
  /\ prev.used
  /\ prev.response.detectedClass = label
  /\ prev.confidence = confidence

Locals == << webm_path, exc, preds, label, confidence, probabilities, issues,
             overall_health, vibration_data >>

\* POST /api/analyze arrives with its form fields (backend/main.py has no
\* check of mode, of the file name or of the payload size)
Receive ==
  /\ pc = "idle"
  /\ \E m \in Modes, a \in AudioKinds :
       /\ mode' = m
       /\ audio' = a
  /\ pc' = "read"
  /\ UNCHANGED << stages, fs, response, frames, loop_i, returned >>
  /\ UNCHANGED Locals
  /\ UNCHANGED Outside

\* the handler has answered: its locals are gone, the temporary directory
\* stays as it is
Return ==
  /\ pc \in { "done", "vib_done" }
  /\ pc' = "idle"
  /\ mode' = ""
  /\ audio' = ""
  /\ stages' = {}
  /\ webm_path' = 0
  /\ exc' = ""
  /\ preds' = NoPreds
  /\ label' = ""
  /\ confidence' = Rat(0, 1)
  /\ probabilities' = EmptyMap
  /\ issues' = << >>
  /\ overall_health' = 0
  /\ vibration_data' = NoVibration
  /\ response' = NoResponse
  /\ frames' = 0
  /\ loop_i' = 0
  /\ returned' = NoReturn
  /\ UNCHANGED fs
  /\ endpoint' = ""
  /\ size' = 0
  /\ filename' = ""
  /\ prev' = NoPrev
  /\ UNCHANGED << Tables, Extraction, Singleton, Conversions >>

\* audio_bytes = await file.read()
ReadFile ==
  /\ pc = "read"
  /\ pc' = "webm_write"
  /\ stages' = stages \cup { "read" }
  /\ UNCHANGED << mode, audio, fs, response, frames, loop_i, returned >>
  /\ UNCHANGED Locals
  /\ UNCHANGED Outside

\* webm_to_wav: NamedTemporaryFile(delete=False, suffix=".webm") creates a
\* file under a name that does not exist yet, and the bytes are written
WebmWrite ==
  /\ pc = "webm_write"
  /\ \E n \in Names :
       /\ WebmFile(n) \notin fs
       /\ webm_path' = n
       /\ fs' = fs \cup { WebmFile(n) }
  /\ pc' = "ffmpeg"
  /\ stages' = stages \cup { "decode" }
  /\ UNCHANGED << mode, audio, exc, preds, label, confidence, probabilities,
                  issues, overall_health, vibration_data, response, frames, loop_i, returned >>
  /\ UNCHANGED Outside

\* subprocess.run(["ffmpeg", "-y", "-i", webm_path, wav_path], check=True):
\* exit status 0 leaves the .wav file
FfmpegOk ==
  /\ pc = "ffmpeg"
  /\ audio = "audio"
  /\ fs' = fs \cup { WavFile(webm_path) }
  /\ pc' = "open_wav"
  /\ UNCHANGED << mode, audio, stages, response, frames, loop_i, returned >>
  /\ UNCHANGED Locals
  /\ UNCHANGED Outside

\* a non-zero exit status raises CalledProcessError (the output file may or
\* may not have been started); a missing binary raises FileNotFoundError
FfmpegFails ==
  /\ pc = "ffmpeg"
  /\ \/ /\ audio = "garbage"
        /\ exc' = "CalledProcessError"
        /\ \E partial \in BOOLEAN :
             fs' = IF partial THEN fs \cup { WavFile(webm_path) } ELSE fs
     \/ /\ exc' = "FileNotFoundError"
        /\ fs' = fs
  /\ pc' = "except"
  /\ UNCHANGED << mode, audio, stages, webm_path, preds, label, confidence,
                  probabilities, issues, overall_health, vibration_data,
                  response, frames, loop_i, returned >>
  /\ UNCHANGED Outside

\* with open(wav_path, "rb") as f: wav_bytes = f.read()
OpenWav ==
  /\ pc = "open_wav"
  /\ IF WavFile(webm_path) \in fs
     THEN pc' = "rm_webm" /\ exc' = exc
     ELSE pc' = "except" /\ exc' = "FileNotFoundError"
  /\ UNCHANGED << mode, audio, stages, fs, webm_path, preds, label, confidence,
                  probabilities, issues, overall_health, vibration_data,
                  response, frames, loop_i, returned >>
  /\ UNCHANGED Outside

\* os.remove(webm_path)
RmWebm ==
  /\ pc = "rm_webm"
  /\ fs' = fs \ { WebmFile(webm_path) }
  /\ pc' = "rm_wav"
  /\ UNCHANGED << mode, audio, stages, response, frames, loop_i, returned >>
  /\ UNCHANGED Locals
  /\ UNCHANGED Outside

\* os.remove(wav_path); return wav_bytes (the local webm_path ends with the
\* call)
RmWav ==
  /\ pc = "rm_wav"
  /\ fs' = fs \ { WavFile(webm_path) }
  /\ webm_path' = 0
  /\ pc' = "extract"
  /\ UNCHANGED << mode, audio, stages, response, frames, loop_i, returned >>
  /\ UNCHANGED << exc, preds, label, confidence, probabilities, issues,
                  overall_health, vibration_data >>
  /\ UNCHANGED Outside

\* features = extract_features(wav_bytes); sf.read raises on bytes it cannot
\* parse
Extract ==
  /\ pc = "extract"
  /\ \E ok \in BOOLEAN :
       IF ok THEN pc' = "predict" /\ exc' = exc
       ELSE pc' = "except" /\ exc' = "LibsndfileError"
  /\ stages' = stages \cup { "features" }
  /\ UNCHANGED << mode, audio, fs, webm_path, preds, label, confidence,
                  probabilities, issues, overall_health, vibration_data,
                  response, frames, loop_i, returned >>
  /\ UNCHANGED Outside

\* preds = model.predict(features); preds = np.squeeze(preds)
Predict ==
  /\ pc = "predict"
  /\ \E out \in ModelOutputs : preds' = out
  /\ pc' = "validate"
  /\ stages' = stages \cup { "inference" }
  /\ UNCHANGED << mode, audio, fs, webm_path, exc, label, confidence,
                  probabilities, issues, overall_health, vibration_data,
                  response, frames, loop_i, returned >>
  /\ UNCHANGED Outside

\* if preds.ndim != 1 or len(preds) != len(CLASSES): raise ValueError
Validate ==
  /\ pc = "validate"
  /\ IF InvalidOutput(preds)
     THEN pc' = "except" /\ exc' = "ValueError"
     ELSE pc' = "normalize" /\ exc' = exc
  /\ UNCHANGED << mode, audio, stages, fs, webm_path, preds, label, confidence,
                  probabilities, issues, overall_health, vibration_data,
                  response, frames, loop_i, returned >>
  /\ UNCHANGED Outside

\* clip, renormalize, argmax, label, confidence, probabilities; return.
\* A zero sum makes every score NaN: run_inference returns a NaN confidence,
\* and int(90 + confidence * 10) in the handler raises ValueError outside the
\* try block, which FastAPI answers with 500.
Normalize ==
  /\ pc = "normalize"
  /\ IF SumSeq(Clipped(preds.scores)) = 0
     THEN /\ exc' = "ValueError"
          /\ response' = [ status |-> 500 ]
          /\ pc' = "done"
          /\ UNCHANGED << label, confidence, probabilities, returned >>
     ELSE /\ LET p == Normalized(preds.scores)
                 class_index == ArgMax(p)
             IN  /\ label' = classes[class_index]
                 /\ confidence' = p[class_index]
                 /\ probabilities' = Probabilities(p)
                 /\ returned' = [ raised |-> FALSE, label |-> classes[class_index],
                                  confidence |-> p[class_index] ]
          /\ pc' = "gate"
          /\ UNCHANGED << exc, response >>
  /\ stages' = stages \cup { "normalize" }
  /\ UNCHANGED << mode, audio, fs, webm_path, preds, issues,
                  overall_health, vibration_data, frames, loop_i >>
  /\ UNCHANGED Outside

\* variant: the default confidence of the except branch is 1.0
ExceptFullConfidence ==
  /\ pc = "except"
  /\ label' = "unknown"
  /\ confidence' = Rat(1, 1)
  /\ probabilities' = EmptyMap
  /\ returned' = [ returned EXCEPT !.raised = TRUE ]
  /\ pc' = "gate"
  /\ UNCHANGED << mode, audio, stages, fs, webm_path, exc, preds, issues,
                  overall_health, vibration_data, response, frames, loop_i >>
  /\ UNCHANGED Outside

\* except Exception: label = "unknown"; confidence = 0.0; probabilities = {}
Except ==
  /\ pc = "except"
  /\ label' = "unknown"
  /\ confidence' = Rat(0, 1)
  /\ probabilities' = EmptyMap
  /\ returned' = [ returned EXCEPT !.raised = TRUE ]
  /\ pc' = "gate"
  /\ UNCHANGED << mode, audio, stages, fs, webm_path, exc, preds, issues,
                  overall_health, vibration_data, response, frames, loop_i >>
  /\ UNCHANGED Outside

\* the confidence gate
Gate ==
  /\ pc = "gate"
  /\ IF GatePasses(label, confidence)
     THEN /\ issues' = << IssueOf(label) >>
          /\ label' = label
          /\ issue_map' = IssueMapAfterIssue(issue_map, label)
     ELSE /\ issues' = << >>
          /\ label' = "normal"
          /\ issue_map' = issue_map
  /\ pc' = "health"
  /\ UNCHANGED << mode, audio, stages, fs, webm_path, exc, preds, confidence,
                  probabilities, overall_health, vibration_data, response,
                  frames, loop_i, returned >>
  /\ UNCHANGED << Request, classes, prev, Extraction, Singleton, Conversions >>

\* the health logic; the float expression gives one value for one pair of
\* operands, so a replayed request that reaches it with the operands of the
\* request before it gets the value that request got
Health ==
  /\ pc = "health"
  /\ \E h \in HealthOutcomes(label, confidence) :
       /\ SameOperands => h = prev.response.overallHealth
       /\ overall_health' = h
  /\ pc' = "vibration"
  /\ UNCHANGED << mode, audio, stages, fs, webm_path, exc, preds, label,
                  confidence, probabilities, issues, vibration_data, response,
                  frames, loop_i, returned >>
  /\ UNCHANGED Outside

\* vibration_data = generate_vibration_data(100 if mode == "quick" else 300)
Vibration ==
  /\ pc = "vibration"
  /\ \E noise \in 0 .. MaxNoise :
       vibration_data' = GenerateVibrationData(PointBudget(mode), noise)
  /\ pc' = "respond"
  /\ stages' = stages \cup { "vibration" }
  /\ UNCHANGED << mode, audio, fs, webm_path, exc, preds, label, confidence,
                  probabilities, issues, overall_health, response, frames, loop_i, returned >>
  /\ UNCHANGED Outside

\* the response dictionary (the timestamp is left out); FastAPI answers 200
Respond ==
  /\ pc = "respond"
  /\ response' =
       [ status |-> 200,
         overallHealth |-> overall_health,
         detectedClass |-> label,
         confidence |-> Round4(confidence),
         classProbabilities |-> probabilities,
         issues |-> issues,
         vibrationData |-> vibration_data,
         mode |-> mode ]
  /\ pc' = "done"
  /\ UNCHANGED << mode, audio, stages, fs, frames, loop_i, returned >>
  /\ UNCHANGED Locals
  /\ UNCHANGED Outside

Next ==
  \/ Receive \/ ReadFile
  \/ WebmWrite \/ FfmpegOk \/ FfmpegFails \/ OpenWav \/ RmWebm \/ RmWav
  \/ Extract \/ Predict \/ Validate \/ Normalize \/ Except
  \/ Gate \/ Health \/ Vibration \/ Respond \/ Return

Spec == Init /\ [][Next]_vars


\* ----------------------------------------- the decision step on its own
\* run_inference replaced by a stub that returns any catalog label with any
\* confidence of the grid in [0, 1]; the handler then runs from the gate on
StubInference ==
  /\ pc = "idle"
  /\ \E m \in Modes : mode' = m
  /\ \/ /\ \E i \in 1 .. Len(CLASSES), n \in 0 .. ConfDen :
             /\ label' = CLASSES[i]
             /\ confidence' = Rat(n, ConfDen)
             /\ returned' = [ raised |-> FALSE, label |-> CLASSES[i],
                              confidence |-> Rat(n, ConfDen) ]
        /\ exc' = ""
        /\ pc' = "gate"
     \/ /\ label' = ""
        /\ confidence' = Rat(0, 1)
        /\ returned' = NoReturn
        /\ exc' = "Exception"
        /\ pc' = "except"
  /\ stages' = { "read", "inference" }
  /\ UNCHANGED << audio, fs, webm_path, preds, probabilities, issues,
                  overall_health, vibration_data, response, frames, loop_i >>
  /\ UNCHANGED Outside

NextDecide ==
  \/ StubInference \/ Except \/ Gate \/ Health \/ Vibration \/ Respond
  \/ Return

SpecDecide == Init /\ [][NextDecide]_vars

\* ------------------------ ml_model_example.py generate_vibration_data
\* step = max(1, magnitude.shape[1] // num_points)
Step(n, num_points) == Max(1, n \div num_points)

\* what librosa.load raises on bytes it cannot read, what librosa.stft
\* raises on a buffer it cannot transform
LoadErrors == { "LibsndfileError", "NoBackendError" }
SpectrumErrors == { "ParameterError" }

\* variant: except ValueError
CaughtByExceptValueErrorOnly(kind) == kind = "ValueError"

\* except Exception as e: the classes raised inside the try block all derive
\* from Exception
CaughtByExcept(kind) == kind \in LoadErrors \cup SpectrumErrors \cup { "ValueError" }

\* librosa.load and librosa.stft: the clip has some number of frames, or one
\* of the two raises; a caught exception leads to the except branch, one
\* that is not caught leaves the function
VibLoad ==
  /\ pc = "idle"
  /\ \E m \in Modes, a \in AudioKinds :
       /\ mode' = m
       /\ audio' = a
       /\ \/ /\ a = "audio"
             /\ \E n \in 1 .. MaxFrames : frames' = n
             /\ exc' = exc
             /\ pc' = "vib_loop"
          \/ /\ \E kind \in IF a = "audio" THEN SpectrumErrors ELSE LoadErrors :
                  /\ exc' = kind
                  /\ pc' = IF CaughtByExcept(kind) THEN "vib_except" ELSE "vib_raised"
             /\ frames' = 0
  /\ loop_i' = 0
  /\ UNCHANGED << stages, fs, webm_path, preds, label, confidence,
                  probabilities, issues, overall_health, vibration_data,
                  response, returned >>
  /\ UNCHANGED Outside

\* one pass of: for i in range(0, magnitude.shape[1], step):
\*                  if len(vibration_data) >= num_points: break
\*                  vibration_data.append(...)
\* and, when the loop ends, return vibration_data
VibLoop ==
  /\ pc = "vib_loop"
  /\ IF loop_i >= frames \/ vibration_data.len >= PointBudget(mode)
     THEN /\ pc' = "vib_done"
          /\ UNCHANGED << vibration_data, loop_i >>
     ELSE /\ vibration_data' = [ vibration_data EXCEPT !.len = @ + 1 ]
          /\ loop_i' = loop_i + Step(frames, PointBudget(mode))
          /\ pc' = "vib_loop"
  /\ UNCHANGED << mode, audio, stages, fs, webm_path, exc, preds, label,
                  confidence, probabilities, issues, overall_health, response,
                  frames, returned >>
  /\ UNCHANGED Outside

\* except Exception: the synthetic series of num_points points
VibFallback ==
  /\ pc = "vib_except"
  /\ \E noise \in 0 .. MaxNoise :
       vibration_data' = [ len |-> PointBudget(mode), noise |-> noise ]
  /\ pc' = "vib_done"
  /\ UNCHANGED << mode, audio, stages, fs, webm_path, exc, preds, label,
                  confidence, probabilities, issues, overall_health, response,
                  frames, loop_i, returned >>
  /\ UNCHANGED Outside

NextVib == VibLoad \/ VibLoop \/ VibFallback \/ Return

SpecVib == Init /\ [][NextVib]_vars

\* ------------------------------------ one request, then the same one again
\* webm_to_wav and extract_features replaced by a stub that yields features
StubFeatures ==
  /\ pc = "idle"
  /\ ~prev.used
  /\ \E m \in Modes : mode' = m
  /\ audio' = "audio"
  /\ stages' = { "read", "decode", "features" }
  /\ pc' = "predict"
  /\ UNCHANGED << fs, response, frames, loop_i, returned >>
  /\ UNCHANGED Locals
  /\ UNCHANGED Outside

\* the request is sent again with the mode it had
StubFeaturesAgain ==
  /\ pc = "idle"
  /\ prev.used
  /\ mode' = prev.mode
  /\ audio' = "audio"
  /\ stages' = { "read", "decode", "features" }
  /\ pc' = "predict"
  /\ UNCHANGED << fs, response, frames, loop_i, returned >>
  /\ UNCHANGED Locals
  /\ UNCHANGED Outside

PredictFirst == ~prev.used /\ Predict

\* the model gives the score vector it gave for the request before
PredictAgain ==
  /\ pc = "predict"
  /\ prev.used
  /\ preds' = prev.preds
  /\ pc' = "validate"
  /\ stages' = stages \cup { "inference" }
  /\ UNCHANGED << mode, audio, fs, webm_path, exc, label, confidence,
                  probabilities, issues, overall_health, vibration_data,
                  response, frames, loop_i, returned >>
  /\ UNCHANGED Outside

\* the handler has answered; the request and its answer are kept for the
\* replay
ReturnKeep ==
  /\ pc = "done"
  /\ ~prev.used
  /\ prev' = [ used |-> TRUE, mode |-> mode, preds |-> preds,
               confidence |-> confidence, response |-> response,
               returned |-> returned ]
  /\ pc' = "idle"
  /\ mode' = ""
  /\ audio' = ""
  /\ stages' = {}
  /\ webm_path' = 0
  /\ exc' = ""
  /\ preds' = NoPreds
  /\ label' = ""
  /\ confidence' = Rat(0, 1)
  /\ probabilities' = EmptyMap
  /\ issues' = << >>
  /\ overall_health' = 0
  /\ vibration_data' = NoVibration
  /\ response' = NoResponse
  /\ frames' = 0
  /\ loop_i' = 0
  /\ returned' = NoReturn
  /\ UNCHANGED << fs, Request, Tables, Extraction, Singleton, Conversions >>

NextTwice ==
  \/ StubFeatures \/ StubFeaturesAgain \/ PredictFirst \/ PredictAgain
  \/ Validate \/ Normalize \/ Except \/ Gate \/ Health \/ Vibration
  \/ Respond \/ ReturnKeep \/ Return

SpecTwice == Init /\ [][NextTwice]_vars

\* ------------------- the analyze endpoints of src/main.py, backend_example.py
Endpoints == { "backend", "root", "example" }
PayloadSizes == { 1, MAX_SIZE, MAX_SIZE + 1 }
FileNames == { "", "clip.webm" }
Handler == << webm_path, preds, label, confidence, probabilities, issues,
              overall_health, vibration_data, frames, loop_i, returned >>

\* POST /api/analyze arrives at one of the three applications
ReceiveApi ==
  /\ pc = "idle"
  /\ \E e \in Endpoints, m \in Modes, a \in AudioKinds, n \in PayloadSizes,
        f \in FileNames :
       /\ endpoint' = e
       /\ mode' = m
       /\ audio' = a
       /\ size' = n
       /\ filename' = f
       /\ pc' = IF e = "backend" THEN "read" ELSE "check_mode"
  /\ UNCHANGED << stages, fs, exc, response >>
  /\ UNCHANGED Handler
  /\ UNCHANGED << Tables, prev, Extraction, Singleton, Conversions >>

\* variant: the mode is not checked before the file is read
CheckModeSkipped ==
  /\ pc = "check_mode"
  /\ pc' = "check_name"
  /\ UNCHANGED << mode, audio, stages, fs, exc, response >>
  /\ UNCHANGED Handler
  /\ UNCHANGED Outside

\* if mode not in ["quick", "deep"]: raise HTTPException(status_code=400)
CheckMode ==
  /\ pc = "check_mode"
  /\ IF mode \in ValidModes
     THEN pc' = "check_name" /\ response' = response
     ELSE pc' = "done" /\ response' = [ status |-> 400 ]
  /\ UNCHANGED << mode, audio, stages, fs, exc >>
  /\ UNCHANGED Handler
  /\ UNCHANGED Outside

\* if not file.filename: raise HTTPException(status_code=400)
CheckName ==
  /\ pc = "check_name"
  /\ IF filename # ""
     THEN pc' = "api_read" /\ response' = response
     ELSE pc' = "done" /\ response' = [ status |-> 400 ]
  /\ UNCHANGED << mode, audio, stages, fs, exc >>
  /\ UNCHANGED Handler
  /\ UNCHANGED Outside

\* audio_bytes = await file.read()
ApiRead ==
  /\ pc = "api_read"
  /\ pc' = "check_size"
  /\ stages' = stages \cup { "read" }
  /\ UNCHANGED << mode, audio, fs, exc, response >>
  /\ UNCHANGED Handler
  /\ UNCHANGED Outside

\* if len(audio_bytes) > 50 * 1024 * 1024: raise HTTPException(status_code=413)
\* src/main.py raises it out of the handler, backend_example.py raises it
\* inside its try block
CheckSize ==
  /\ pc = "check_size"
  /\ IF size > MAX_SIZE
     THEN /\ response' = [ status |-> 413 ]
          /\ exc' = "HTTPException"
          /\ pc' = IF endpoint = "example" THEN "api_except" ELSE "done"
     ELSE /\ response' = response
          /\ exc' = exc
          /\ pc' = IF endpoint = "example" THEN "analyze_data" ELSE "preprocess"
  /\ UNCHANGED << mode, audio, stages, fs >>
  /\ UNCHANGED Handler
  /\ UNCHANGED Outside

\* backend_example.py: except HTTPException: raise
\*                     except Exception: raise HTTPException(status_code=500)
ExampleExcept ==
  /\ pc = "api_except"
  /\ response' = IF exc = "HTTPException" THEN response ELSE [ status |-> 500 ]
  /\ pc' = "done"
  /\ UNCHANGED << mode, audio, stages, fs, exc >>
  /\ UNCHANGED Handler
  /\ UNCHANGED Outside

\* src/main.py preprocess_audio: AudioSegment.from_file and librosa.load, each
\* failure raised as HTTPException(status_code=400)
PreprocessAudio ==
  /\ pc = "preprocess"
  /\ IF audio = "audio"
     THEN pc' = "dummy_predict" /\ response' = response /\ exc' = exc
     ELSE pc' = "done" /\ response' = [ status |-> 400 ] /\ exc' = "HTTPException"
  /\ stages' = stages \cup { "decode" }
  /\ UNCHANGED << mode, audio, fs >>
  /\ UNCHANGED Handler
  /\ UNCHANGED Outside

\* src/main.py: DummyModelHandler.predict, vibration_data = [0] * 128, return
DummyPredict ==
  /\ pc = "dummy_predict"
  /\ response' = [ status |-> 200, overall_health |-> 95, issues |-> << >>,
                   vibration_data |-> [ len |-> 128, noise |-> 0 ] ]
  /\ pc' = "done"
  /\ stages' = stages \cup { "inference" }
  /\ UNCHANGED << mode, audio, fs, exc >>
  /\ UNCHANGED Handler
  /\ UNCHANGED Outside

\* backend_example.py analyze_audio_data: the health score and the number of
\* issues follow the mode, the series has num_points jittered points
AnalyzeAudioData ==
  /\ pc = "analyze_data"
  /\ \E noise \in 0 .. MaxNoise :
       response' = [ status |-> 200,
                     overall_health |-> IF mode = "quick" THEN 78 ELSE 72,
                     issues |-> IF mode = "quick" THEN 1 ELSE 3,
                     vibration_data |-> [ len |-> PointBudget(mode), noise |-> noise ] ]
  /\ pc' = "done"
  /\ UNCHANGED << mode, audio, stages, fs, exc >>
  /\ UNCHANGED Handler
  /\ UNCHANGED Outside

NextApi ==
  \/ ReceiveApi \/ CheckMode \/ CheckName \/ ApiRead \/ CheckSize
  \/ ExampleExcept \/ PreprocessAudio \/ DummyPredict \/ AnalyzeAudioData
  \/ ReadFile
  \/ WebmWrite \/ FfmpegOk \/ FfmpegFails \/ OpenWav \/ RmWebm \/ RmWav
  \/ Extract \/ Predict \/ Validate \/ Normalize \/ Except
  \/ Gate \/ Health \/ Vibration \/ Respond \/ Return

SpecApi == Init /\ [][NextApi]_vars

\* ------------------------------------- src/main.py analyze_audio on its own
\* POST /api/analyze arrives at the application of src/main.py
ReceiveRoot ==
  /\ pc = "idle"
  /\ \E m \in Modes, a \in AudioKinds, n \in PayloadSizes, f \in FileNames :
       /\ mode' = m
       /\ audio' = a
       /\ size' = n
       /\ filename' = f
  /\ endpoint' = "root"
  /\ pc' = "check_mode"
  /\ UNCHANGED << stages, fs, exc, response >>
  /\ UNCHANGED Handler
  /\ UNCHANGED << Tables, prev, Extraction, Singleton, Conversions >>

NextRoot ==
  \/ ReceiveRoot \/ CheckMode \/ CheckName \/ ApiRead \/ CheckSize
  \/ PreprocessAudio \/ DummyPredict \/ Return

SpecRoot == Init /\ [][NextRoot]_vars

\* ------------------------------------------ audio/preprocess.py, both copies
Variants == { "backend/audio", "audio" }
SampleRates == { 1, 2 }
SampleValues == { 0, 1 }
Buffers == UNION { [ 1 .. n -> SampleValues ] : n \in 0 .. MaxSamples }
\* np.std of the coefficient matrix, in units of 1e-6
Deviations == { 0, 1, ClipHi }

\* target_len = int(TARGET_DURATION * sr)
TargetLen(rate) == TARGET_DURATION * rate

\* if len(y) < target_len: y = np.pad(y, (0, target_len - len(y)))
\* else: y = y[:target_len]
FixLength(buf, rate) ==
  IF Len(buf) < TargetLen(rate)
  THEN buf \o [ i \in 1 .. TargetLen(rate) - Len(buf) |-> 0 ]
  ELSE SubSeq(buf, 1, TargetLen(rate))

\* y, sr = sf.read(io.BytesIO(wav_bytes)); if y.ndim > 1: y = y.mean(axis=1)
ExRead ==
  /\ pc = "idle"
  /\ \E v \in Variants, rate \in SampleRates, buf \in Buffers :
       /\ variant' = v
       /\ sr' = rate
       /\ y_in' = buf
       /\ y' = buf
       /\ pc' = IF v = "backend/audio" THEN "ex_fix" ELSE "ex_mfcc"
  /\ UNCHANGED << mfcc, tensor >>
  /\ UNCHANGED << mode, audio, stages, fs, exc, response >>
  /\ UNCHANGED Handler
  /\ UNCHANGED << Request, Tables, prev, Singleton, Conversions >>

\* the length fix of backend/audio/preprocess.py; audio/preprocess.py has
\* no such step
ExFix ==
  /\ pc = "ex_fix"
  /\ y' = FixLength(y, sr)
  /\ pc' = "ex_mfcc"
  /\ UNCHANGED << variant, sr, y_in, mfcc, tensor >>
  /\ UNCHANGED << mode, audio, stages, fs, exc, response >>
  /\ UNCHANGED Handler
  /\ UNCHANGED << Request, Tables, prev, Singleton, Conversions >>

\* mfcc = librosa.feature.mfcc(y=y, sr=sr, n_mfcc=TARGET_SIZE): n_mfcc rows
\* and one column per hop, centred. On an empty buffer the centring pad
\* raises in librosa releases that pad by reflection, and gives one column
\* in those that pad with zeros.
ExMfcc ==
  /\ pc = "ex_mfcc"
  /\ \/ /\ \E d \in Deviations :
             mfcc' = [ rows |-> TARGET_SIZE, cols |-> 1 + Len(y) \div HopLength,
                       std |-> d ]
        /\ pc' = "ex_normalize"
        /\ exc' = exc
     \/ /\ Len(y) = 0
        /\ mfcc' = mfcc
        /\ pc' = "ex_raised"
        /\ exc' = "ValueError"
  /\ UNCHANGED << variant, sr, y_in, y, tensor >>
  /\ UNCHANGED << mode, audio, stages, fs, response >>
  /\ UNCHANGED Handler
  /\ UNCHANGED << Request, Tables, prev, Singleton, Conversions >>

\* mfcc = (mfcc - np.mean(mfcc)) / (np.std(mfcc) + 1e-6): finite when the
\* divisor is not zero
ExNormalize ==
  /\ pc = "ex_normalize"
  /\ tensor' = [ tensor EXCEPT !.finite = (mfcc.std + Epsilon # 0) ]
  /\ pc' = "ex_resize"
  /\ UNCHANGED << variant, sr, y_in, y, mfcc >>
  /\ UNCHANGED << mode, audio, stages, fs, exc, response >>
  /\ UNCHANGED Handler
  /\ UNCHANGED << Request, Tables, prev, Singleton, Conversions >>

\* cv2.resize(mfcc, (TARGET_SIZE, TARGET_SIZE), interpolation=cv2.INTER_AREA)
ExResize ==
  /\ pc = "ex_resize"
  /\ mfcc' = [ mfcc EXCEPT !.rows = TARGET_SIZE, !.cols = TARGET_SIZE ]
  /\ pc' = "ex_shape"
  /\ UNCHANGED << variant, sr, y_in, y, tensor >>
  /\ UNCHANGED << mode, audio, stages, fs, exc, response >>
  /\ UNCHANGED Handler
  /\ UNCHANGED << Request, Tables, prev, Singleton, Conversions >>

\* mfcc = mfcc[..., np.newaxis]; mfcc = mfcc[np.newaxis, ...]; return mfcc
ExShape ==
  /\ pc = "ex_shape"
  /\ tensor' = [ tensor EXCEPT !.shape = << 1, mfcc.rows, mfcc.cols, 1 >> ]
  /\ pc' = "ex_done"
  /\ UNCHANGED << variant, sr, y_in, y, mfcc >>
  /\ UNCHANGED << mode, audio, stages, fs, exc, response >>
  /\ UNCHANGED Handler
  /\ UNCHANGED << Request, Tables, prev, Singleton, Conversions >>

\* the call is over, with a tensor or with an exception
ExReturn ==
  /\ pc \in { "ex_done", "ex_raised" }
  /\ pc' = "idle"
  /\ variant' = ""
  /\ sr' = 0
  /\ y_in' = << >>
  /\ y' = << >>
  /\ mfcc' = NoMfcc
  /\ tensor' = NoTensor
  /\ exc' = ""
  /\ UNCHANGED << mode, audio, stages, fs, response >>
  /\ UNCHANGED Handler
  /\ UNCHANGED << Request, Tables, prev, Singleton, Conversions >>

NextExtract ==
  ExRead \/ ExFix \/ ExMfcc \/ ExNormalize \/ ExResize \/ ExShape \/ ExReturn

SpecExtract == Init /\ [][NextExtract]_vars

\* ------------------------------------- model_handler.py get_model_handler
\* what a call of get_model_handler leaves alone
NotSingleton ==
  << pc, mode, audio, stages, fs, exc, response, Handler, Request, Tables,
     prev, Extraction, Conversions >>

\* a thread calls get_model_handler()
GetModelHandler(t) ==
  /\ hpc[t] = "idle"
  /\ hpc' = [ hpc EXCEPT ![t] = "check" ]
  /\ UNCHANGED << model_handler, hnew, loads, handed >>
  /\ UNCHANGED NotSingleton

\* if _model_handler is None:
CheckNone(t) ==
  /\ hpc[t] = "check"
  /\ hpc' = [ hpc EXCEPT ![t] = IF model_handler = 0 THEN "construct" ELSE "return" ]
  /\ UNCHANGED << model_handler, hnew, loads, handed >>
  /\ UNCHANGED NotSingleton

\* MachineModelHandler(model_path): __init__ loads the model file; when the
\* load fails it logs and raises, and the exception leaves get_model_handler
\* with _model_handler still None
Construct(t) ==
  /\ hpc[t] = "construct"
  /\ loads.begun < MaxLoads
  /\ \E loaded \in BOOLEAN :
       IF loaded
       THEN /\ hnew' = [ hnew EXCEPT ![t] = loads.completed + 1 ]
            /\ loads' = [ loads EXCEPT !.begun = @ + 1, !.completed = @ + 1,
                                       !.retried = @ \/ loads.failed > 0 ]
            /\ hpc' = [ hpc EXCEPT ![t] = "assign" ]
       ELSE /\ hnew' = hnew
            /\ loads' = [ loads EXCEPT !.begun = @ + 1, !.failed = @ + 1,
                                       !.retried = @ \/ loads.failed > 0 ]
            /\ hpc' = [ hpc EXCEPT ![t] = "idle" ]
  /\ UNCHANGED << model_handler, handed >>
  /\ UNCHANGED NotSingleton

\* _model_handler = <the new instance>
Assign(t) ==
  /\ hpc[t] = "assign"
  /\ model_handler' = hnew[t]
  /\ hnew' = [ hnew EXCEPT ![t] = 0 ]
  /\ hpc' = [ hpc EXCEPT ![t] = "return" ]
  /\ UNCHANGED << loads, handed >>
  /\ UNCHANGED NotSingleton

\* return _model_handler
ReturnHandler(t) ==
  /\ hpc[t] = "return"
  /\ handed' = handed \cup { model_handler }
  /\ hpc' = [ hpc EXCEPT ![t] = "idle" ]
  /\ UNCHANGED << model_handler, hnew, loads >>
  /\ UNCHANGED NotSingleton

NextSingleton ==
  \E t \in Threads :
    \/ GetModelHandler(t) \/ CheckNone(t) \/ Construct(t) \/ Assign(t)
    \/ ReturnHandler(t)

SpecSingleton == Init /\ [][NextSingleton]_vars

\* ------------------------------- model_handler.py interpret_prediction
\* entries of prediction[0], in units of 1/100
ProbValues == { 0, 35, 45, 65, 75 }
Predictions ==
  UNION { [ 1 .. n -> ProbValues ] : n \in { 1, 2, MaxOutputs } }

\* one issue dictionary; the description is an f-string that formats the
\* probability it was raised for
IssueWith(sev, comp, text, prob, rec) ==
  [ severity |-> sev, component |-> comp,
    description |-> [ text |-> text, confidence |-> prob ],
    recommendation |-> rec ]

\* one issue dictionary whose description is a fixed text
IssueFixed(sev, comp, text, rec) ==
  [ severity |-> sev, component |-> comp,
    description |-> [ text |-> text ],
    recommendation |-> rec ]

\* if p > hi: append the first issue; elif p > lo: append the second
Graded(prob, hi, first, lo, second) ==
  IF prob > hi THEN << first >> ELSE IF prob > lo THEN << second >> ELSE << >>

\* the issue list of interpret_prediction for prediction[0] = v
InterpretedIssues(v) ==
  IF Len(v) >= 4
  THEN Graded(v[2], 70,
              IssueWith("high", "Bearing Motor",
                        "Terdeteksi masalah serius pada bearing", v[2],
                        "Segera lakukan penggantian bearing dalam 48 jam untuk mencegah kerusakan lebih lanjut"),
              40,
              IssueWith("medium", "Bearing Motor",
                        "Kemungkinan masalah pada bearing", v[2],
                        "Lakukan inspeksi bearing dalam 7 hari dan monitor getaran"))
       \o
       Graded(v[3], 60,
              IssueWith("high", "Belt Transmisi",
                        "Terdeteksi masalah pada belt", v[3],
                        "Ganti belt transmisi atau sesuaikan ketegangan dalam 3 hari"),
              30,
              IssueWith("medium", "Belt Transmisi",
                        "Ketegangan belt tidak optimal", v[3],
                        "Sesuaikan ketegangan belt pada maintenance berikutnya"))
       \o
       Graded(v[4], 50,
              IssueWith("medium", "Mounting Base",
                        "Getaran pada mounting base", v[4],
                        "Periksa baut mounting dan kencangkan jika perlu"),
              30,
              IssueWith("low", "Mounting Base",
                        "Sedikit getaran resonansi", v[4],
                        "Monitor secara berkala, belum perlu tindakan segera"))
  ELSE IF Len(v) = 2
  THEN Graded(v[2], 70,
              IssueWith("high", "Motor",
                        "Terdeteksi anomali pada mesin", v[2],
                        "Segera lakukan pemeriksaan menyeluruh"),
              40,
              IssueWith("medium", "Motor",
                        "Kemungkinan anomali", v[2],
                        "Lakukan inspeksi dalam waktu dekat"))
  ELSE IF v[1] < 50
  THEN << IssueFixed("high", "Motor", "Kondisi mesin dalam keadaan buruk",
                     "Segera lakukan maintenance komprehensif") >>
  ELSE IF v[1] < 70
  THEN << IssueFixed("medium", "Motor", "Kondisi mesin memerlukan perhatian",
                     "Jadwalkan maintenance dalam minggu ini") >>
  ELSE IF v[1] < 85
  THEN << IssueFixed("low", "Motor",
                     "Kondisi mesin masih baik dengan penurunan performa kecil",
                     "Monitor secara rutin") >>
  ELSE << >>

\* health_score = prediction[0][0] * 100; max(0, min(100, health_score))
InterpretedHealth(v) == Max(0, IF v[1] > 100 THEN 100 ELSE v[1])

\* MachineModelHandler.interpret_prediction(prediction, mode)
InterpretPrediction ==
  /\ pc = "idle"
  /\ \E m \in Modes, v \in Predictions :
       /\ mode' = m
       /\ preds' = [ ndim |-> 2, scores |-> v ]
       /\ issues' = InterpretedIssues(v)
       /\ overall_health' = InterpretedHealth(v)
  /\ pc' = "done"
  /\ UNCHANGED << audio, stages, fs, webm_path, exc, label, confidence,
                  probabilities, vibration_data, response, frames, loop_i,
                  returned >>
  /\ UNCHANGED Outside

NextInterpret == InterpretPrediction \/ Return

SpecInterpret == Init /\ [][NextInterpret]_vars

\* ------------- the decision step twice, the second time at least as sure
\* classes of the catalog that ISSUE_MAP has no entry for, "normal" aside
Unmapped == { classes[i] : i \in 1 .. Len(classes) } \ (DOMAIN issue_map \cup { "normal" })

StubInferenceFirst == ~prev.used /\ StubInference

\* the answer for an unmapped class is kept for the comparison
KeepUnmapped ==
  /\ ~returned.raised
  /\ returned.label \in Unmapped
  /\ ReturnKeep

\* the stub returns the class it returned before, with a confidence of the
\* grid that is not lower; the mode is the one of the request before
StubInferenceAgain ==
  /\ pc = "idle"
  /\ prev.used
  /\ mode' = prev.mode
  /\ \E n \in prev.returned.confidence.num .. ConfDen :
       /\ label' = prev.returned.label
       /\ confidence' = Rat(n, ConfDen)
       /\ returned' = [ raised |-> FALSE, label |-> prev.returned.label,
                        confidence |-> Rat(n, ConfDen) ]
  /\ exc' = ""
  /\ pc' = "gate"
  /\ stages' = { "read", "inference" }
  /\ UNCHANGED << audio, fs, webm_path, preds, probabilities, issues,
                  overall_health, vibration_data, response, frames, loop_i >>
  /\ UNCHANGED Outside

NextRaise ==
  \/ StubInferenceFirst \/ StubInferenceAgain \/ Except \/ Gate \/ Health
  \/ Vibration \/ Respond \/ KeepUnmapped \/ Return

SpecRaise == Init /\ [][NextRaise]_vars

\* ------------------- audio/convert.py webm_to_wav, several at a time
\* what a step of webm_to_wav leaves alone
NotConversions ==
  << pc, mode, audio, stages, fs, exc, response, Handler, Request, Tables,
     prev, Extraction, Singleton >>

\* the entries of the directory under one name and suffix
Entries(n, suffix) == { f \in tmpfiles : f[1] = n /\ f[2] = suffix }

\* worker w touches the file n.suffix while another worker, in the middle of
\* its conversion under the name n, is the one that wrote it
Foreign(w, n, suffix) ==
  \E f \in Entries(n, suffix) :
    f[3] # w /\ cpc[f[3]] # "idle" /\ cpath[f[3]] = n

\* NamedTemporaryFile(delete=False, suffix=".webm"): a name whose .webm file
\* does not exist is drawn, the file is created and written
CWrite(w) ==
  /\ cpc[w] = "idle"
  /\ \E n \in Names :
       /\ Entries(n, "webm") = {}
       /\ cpath' = [ cpath EXCEPT ![w] = n ]
       /\ tmpfiles' = tmpfiles \cup { << n, "webm", w >> }
  /\ cpc' = [ cpc EXCEPT ![w] = "ffmpeg" ]
  /\ UNCHANGED trespass
  /\ UNCHANGED NotConversions

\* ffmpeg -y -i webm_path wav_path: reads the .webm file and writes the .wav
\* file over whatever is there; a non-zero exit raises and ends the call
CFfmpeg(w) ==
  /\ cpc[w] = "ffmpeg"
  /\ \/ /\ tmpfiles' = (tmpfiles \ Entries(cpath[w], "wav"))
                         \cup { << cpath[w], "wav", w >> }
        /\ trespass' = (trespass \/ Foreign(w, cpath[w], "webm")
                                 \/ Foreign(w, cpath[w], "wav"))
        /\ cpc' = [ cpc EXCEPT ![w] = "open" ]
        /\ cpath' = cpath
     \/ /\ tmpfiles' = tmpfiles
        /\ trespass' = trespass
        /\ cpc' = [ cpc EXCEPT ![w] = "idle" ]
        /\ cpath' = [ cpath EXCEPT ![w] = 0 ]
  /\ UNCHANGED NotConversions

\* with open(wav_path, "rb") as f: wav_bytes = f.read()
COpen(w) ==
  /\ cpc[w] = "open"
  /\ IF Entries(cpath[w], "wav") = {}
     THEN /\ cpc' = [ cpc EXCEPT ![w] = "idle" ]
          /\ cpath' = [ cpath EXCEPT ![w] = 0 ]
          /\ trespass' = trespass
     ELSE /\ cpc' = [ cpc EXCEPT ![w] = "rm_webm" ]
          /\ cpath' = cpath
          /\ trespass' = (trespass \/ Foreign(w, cpath[w], "wav"))
  /\ UNCHANGED tmpfiles
  /\ UNCHANGED NotConversions

\* os.remove(webm_path)
CRmWebm(w) ==
  /\ cpc[w] = "rm_webm"
  /\ IF Entries(cpath[w], "webm") = {}
     THEN /\ cpc' = [ cpc EXCEPT ![w] = "idle" ]
          /\ cpath' = [ cpath EXCEPT ![w] = 0 ]
          /\ trespass' = trespass
          /\ tmpfiles' = tmpfiles
     ELSE /\ cpc' = [ cpc EXCEPT ![w] = "rm_wav" ]
          /\ cpath' = cpath
          /\ trespass' = (trespass \/ Foreign(w, cpath[w], "webm"))
          /\ tmpfiles' = tmpfiles \ Entries(cpath[w], "webm")
  /\ UNCHANGED NotConversions

\* os.remove(wav_path); return wav_bytes
CRmWav(w) ==
  /\ cpc[w] = "rm_wav"
  /\ trespass' = (trespass \/ Foreign(w, cpath[w], "wav"))
  /\ tmpfiles' = tmpfiles \ Entries(cpath[w], "wav")
  /\ cpc' = [ cpc EXCEPT ![w] = "idle" ]
  /\ cpath' = [ cpath EXCEPT ![w] = 0 ]
  /\ UNCHANGED NotConversions

NextConvert ==
  \E w \in Workers :
    CWrite(w) \/ CFfmpeg(w) \/ COpen(w) \/ CRmWebm(w) \/ CRmWav(w)

SpecConvert == Init /\ [][NextConvert]_vars

\* ================================================================ claims
Abs(x) == IF x < 0 THEN 0 - x ELSE x

RECURSIVE SumOver(_, _)
SumOver(f, S) ==
  IF S = {} THEN 0
  ELSE LET x == CHOOSE e \in S : TRUE IN f[x] + SumOver(f, S \ { x })

ClassSet == { CLASSES[i] : i \in 1 .. Len(CLASSES) }

\* the handler has answered with a diagnostic result
Answered == pc = "done" /\ response.status = 200

\* C1: the response keeps the label run_inference returned, with exactly one
\* issue whose id is that label, exactly when the label is a key of ISSUE_MAP
\* and the confidence is at least 0.60; in every other case (an exception of
\* run_inference included) the response is a success with detectedClass
\* "normal" and no issue.
C1_ConfidenceGate ==
  pc = "done" =>
    LET kept == /\ ~returned.raised
                /\ returned.label \in DOMAIN ISSUE_MAP
                /\ 100 * returned.confidence.num >= 60 * returned.confidence.den
    IN  /\ response.status = 200
        /\ kept => /\ response.detectedClass = returned.label
                   /\ Len(response.issues) = 1
                   /\ response.issues[1].id = returned.label
        /\ ~kept => /\ response.detectedClass = "normal"
                    /\ response.issues = << >>

\* knocking at exactly 0.60 is reported with its one issue
C1_Witness ==
  /\ pc = "done"
  /\ returned.label = "knocking"
  /\ returned.confidence = Rat(60, 100)
  /\ response.detectedClass = "knocking"
  /\ Len(response.issues) = 1

\* C2: a request whose bytes cannot be decoded ends in a client error and
\* carries no diagnostic result.
C2_DecodeFailureIsClientError ==
  (pc = "done" /\ audio = "garbage") =>
    /\ response.status \in 400 .. 499
    /\ "overallHealth" \notin DOMAIN response

\* C3: whenever no call of webm_to_wav is in progress, none of the temporary
\* files it created remains.
C3_NoTempFileRemains ==
  pc \notin { "ffmpeg", "open_wav", "rm_webm", "rm_wav" } => fs = {}

\* C4: a request whose mode is neither "quick" nor "deep" is answered 400 and
\* no stage of the pipeline (payload read, decoding, features, inference,
\* vibration) runs for it.
C4_InvalidModeRejectedFirst ==
  (mode # "" /\ mode \notin { "quick", "deep" }) =>
    /\ stages = {}
    /\ pc = "done" => response.status = 400

\* C5: a model output that is not a vector of len(CLASSES) entries is never
\* clipped or normalized, and the request ends in a server error.
C5_InvalidOutputIsServerError ==
  ("inference" \in stages /\ InvalidOutput(preds)) =>
    /\ pc # "normalize"
    /\ "normalize" \notin stages
    /\ pc = "done" => response.status \in 500 .. 599

\* C6: generate_vibration_data of ml_model_example.py returns exactly 100
\* points for mode "quick" and 300 for mode "deep", on the spectral path for
\* every number of frames and on the fallback path.
C6_VibrationLength ==
  (pc = "vib_done" /\ mode \in { "quick", "deep" }) =>
    vibration_data.len = (IF mode = "quick" THEN 100 ELSE 300)

\* C7: the overall health of every response is an integer between 0 and 100.
C7_HealthInRange ==
  /\ pc \in { "vibration", "respond", "done" } => overall_health \in 0 .. 100
  /\ pc = "done" => response.overallHealth \in 0 .. 100

\* a fault label reported with confidence 1.0: the lowest health
C7_Witness ==
  /\ pc = "done"
  /\ response.detectedClass # "normal"
  /\ confidence.num = confidence.den
  /\ response.overallHealth = 30

\* C8: for a final label "normal" the health is 90 + confidence * 10
\* truncated: 90 at confidence 0.0 and 100 at confidence 1.0.
C8_NormalHealth ==
  (pc = "done" /\ response.detectedClass = "normal") =>
    LET h == response.overallHealth - 90
    IN  /\ confidence.num = 0 => response.overallHealth = 90
        /\ confidence.num = confidence.den => response.overallHealth = 100
        /\ h * confidence.den <= 10 * confidence.num
        /\ 10 * confidence.num <= (h + 1) * confidence.den

\* a normal label at confidence 1.0 gets health 100
C8_Witness ==
  /\ pc = "done"
  /\ response.detectedClass = "normal"
  /\ returned.label = "normal"
  /\ confidence.num = confidence.den
  /\ response.overallHealth = 100

\* the returned class probabilities of a request whose score vector was valid
ProbabilitySum == SumOver(response.classProbabilities, DOMAIN response.classProbabilities)

\* C9 as stated: the returned class probabilities sum to 1 within 1e-6.
C9_SumWithinMicro ==
  (pc = "done" /\ "normalize" \in stages) =>
    100 * Abs(ProbabilitySum - 10000) <= 1

\* C9: the returned class probabilities, each rounded to 4 decimals, sum to 1
\* within 5e-4 (half a unit of the fourth decimal for each of the 9 classes).
C9_SumWithinRounding ==
  (pc = "done" /\ "normalize" \in stages) =>
    Abs(ProbabilitySum - 10000) <= 5

\* the all-zero score vector: nine probabilities 0.1111, sum 0.9999
C9_Witness ==
  /\ pc = "done"
  /\ "normalize" \in stages
  /\ \A i \in DOMAIN preds.scores : preds.scores[i] = 0
  /\ ProbabilitySum = 9999

\* C10: every successful response has exactly one class probability for each
\* class of the catalog, each a number of 4 decimals in [0, 1].
C10_OneProbabilityPerClass ==
  Answered =>
    /\ DOMAIN response.classProbabilities = ClassSet
    /\ \A c \in ClassSet : response.classProbabilities[c] \in 0 .. 10000

\* C11: a payload above 50 MiB never reaches decoding or the model and is
\* answered with an error (413 when the mode and the file name are valid,
\* never 500), and a payload of at most 50 MiB is never answered with 413,
\* whichever application serves the request
C11_OversizeRejectedFirst ==
  /\ size > MAX_SIZE => stages \cap { "decode", "features", "inference" } = {}
  /\ size > MAX_SIZE /\ pc = "done" => response.status \in { 400, 413 }
  /\ size > MAX_SIZE /\ pc = "done" /\ mode \in ValidModes /\ filename # ""
       => response.status = 413
  /\ size <= MAX_SIZE /\ pc = "done" => response.status # 413

C13_LengthFixed ==
  pc = "ex_mfcc" =>
    /\ Len(y) = TargetLen(sr)
    /\ \A i \in 1 .. Len(y) :
         y[i] = IF i <= Len(y_in) THEN y_in[i] ELSE 0

C15_FailedLoadIsFinal ==
  /\ 0 \notin handed
  /\ ~loads.retried

\* C18: the handler is constructed at most once, and every call returns
\* the same instance
C18_ConstructedOnce ==
  /\ loads.completed <= 1
  /\ Cardinality(handed) <= 1

\* C16: no exception leaves generate_vibration_data of ml_model_example.py:
\* every call ends with a series, and a call in which the load or the
\* spectrum raised ends with the synthetic series of num_points points
C16_SeriesAlwaysReturned ==
  /\ pc # "vib_raised"
  /\ pc = "vib_done" /\ exc # "" => vibration_data.len = PointBudget(mode)
  /\ pc = "vib_done" /\ exc = "" => vibration_data.len >= 1

C16_Witness ==
  /\ pc = "vib_done"
  /\ exc = "LibsndfileError"
  /\ mode = "fast"
  /\ vibration_data.len = DeepPoints

\* C19: the label run_inference returns is the catalog class at an index
\* where the clipped score is largest, and the confidence is that clipped
\* score divided by the sum of the clipped scores
C19_LabelIsArgMax ==
  ~returned.raised /\ "normalize" \in stages =>
    LET raw == preds.scores
        c == [ i \in 1 .. Len(raw) |->
                 IF raw[i] < ClipLo THEN ClipLo
                 ELSE IF raw[i] > ClipHi THEN ClipHi ELSE raw[i] ]
    IN  \E i \in 1 .. Len(raw) :
          /\ returned.label = CLASSES[i]
          /\ \A j \in 1 .. Len(raw) : c[i] >= c[j]
          /\ returned.confidence = [ num |-> c[i], den |-> SumSeq(c) ]

C19_Witness ==
  /\ pc = "gate"
  /\ ~returned.raised /\ "normalize" \in stages
  /\ returned.label = "knocking"
  /\ \E i \in 1 .. Len(preds.scores) : preds.scores[i] > ClipHi
  /\ \E i \in 1 .. Len(preds.scores) : preds.scores[i] = 12

\* C20: for a score vector of the catalog length the sum of the clipped
\* scores is positive when the division is reached, and the request ends
\* with a response that carries a class, a positive confidence and a health
\* score
C20_DecisionCompletes ==
  /\ pc = "normalize" => SumSeq(Clipped(preds.scores)) > 0
  /\ pc = "done" /\ "inference" \in stages /\ ~InvalidOutput(preds) =>
       /\ response.status = 200
       /\ response.detectedClass \in ClassSet
       /\ response.confidence \in 1 .. 10000
       /\ response.overallHealth \in 30 .. 100

C20_Witness ==
  /\ pc = "done"
  /\ preds.ndim = 1 /\ Len(preds.scores) = Len(CLASSES)
  /\ \A i \in 1 .. Len(preds.scores) : preds.scores[i] = 0
  /\ response.status = 200
  /\ response.detectedClass = "normal"
  /\ response.confidence = 1111
  /\ response.overallHealth = 91

\* C21: every issue that is emitted equals the ISSUE_MAP entry of one class,
\* field for field, with the id of that class added
C21_IssueIsTableEntry ==
  \A i \in 1 .. Len(issues) :
    \E l \in DOMAIN ISSUE_MAP :
      issues[i] = ( "id" :> l ) @@ ISSUE_MAP[l]

\* C22: a response with a class other than "normal" has the health
\* max(30, int((1 - confidence) * 100)), which lies in 30 .. 40 and is 30
\* when the confidence is 0.70 or more
C22_FaultHealth ==
  pc = "done" /\ response.status = 200 /\ response.detectedClass # "normal" =>
    LET e == (100 * (confidence.den - confidence.num)) \div confidence.den
    IN  /\ response.overallHealth \in { Max(30, e), Max(30, e - 1) }
        /\ response.overallHealth \in 30 .. 40
        /\ 100 * confidence.num >= 70 * confidence.den
             => response.overallHealth = 30

C22_Witness ==
  /\ pc = "done"
  /\ response.detectedClass = "knocking"
  /\ confidence = Rat(65, 100)
  /\ response.overallHealth = 35

\* C23: in every response the issue list has at most one element, it has
\* one exactly when detectedClass is not "normal", and the id of that issue
\* is detectedClass
C23_IssuesMatchClass ==
  pc = "done" /\ response.status = 200 =>
    /\ Len(response.issues) <= 1
    /\ Len(response.issues) = 1 <=> response.detectedClass # "normal"
    /\ Len(response.issues) = 1 =>
         /\ "id" \in DOMAIN response.issues[1]
         /\ response.issues[1].id = response.detectedClass

C23_Witness ==
  /\ pc = "done"
  /\ response.detectedClass = "oli_rendah"
  /\ Len(response.issues) = 1
  /\ response.issues[1].id = "oli_rendah"
  /\ response.issues[1].component = "Pelumasan"

\* C24: in a response that follows a completed inference the reported
\* confidence is the probability that classProbabilities gives to the
\* reported detectedClass, also when the gate has set the class to "normal"
C24_ConfidenceOfReportedClass ==
  pc = "done" /\ response.status = 200 /\ "normalize" \in stages =>
    /\ response.detectedClass \in DOMAIN response.classProbabilities
    /\ response.confidence = response.classProbabilities[response.detectedClass]

C26_UnmappedClassIsNormal ==
  pc = "done" /\ ~returned.raised /\ returned.label \in Unmapped =>
    /\ response.detectedClass = "normal"
    /\ response.issues = << >>
    /\ response.overallHealth >= 90
    /\ (prev.used /\ prev.returned.label = returned.label
         /\ RatGe(returned.confidence, prev.returned.confidence))
         => response.overallHealth >= prev.response.overallHealth

C26_Witness ==
  /\ pc = "done"
  /\ prev.used
  /\ returned.label = "aki_tekor"
  /\ prev.returned.label = "aki_tekor"
  /\ prev.returned.confidence = Rat(20, ConfDen)
  /\ returned.confidence = Rat(ConfDen, ConfDen)
  /\ prev.response.overallHealth = 92
  /\ response.overallHealth = 100
  /\ response.detectedClass = "normal"

\* C27: whatever the interleaving of the conversions, no conversion reads,
\* overwrites or removes a temporary file that another running conversion
\* wrote, a reused name included
C27_NoForeignTempFile == ~trespass

\* C28: the confidence that run_inference returns for a score vector of the
\* catalog length is at least 1/len(CLASSES) and below 1, so no answer
\* carries a health of 100, and a health of 90 is carried only by an answer
\* whose run_inference raised
C28_ConfidenceRange ==
  /\ ~returned.raised /\ "normalize" \in stages =>
       /\ Len(CLASSES) * returned.confidence.num >= returned.confidence.den
       /\ returned.confidence.num < returned.confidence.den
  /\ pc = "done" /\ response.status = 200 =>
       /\ response.overallHealth # 100
       /\ response.overallHealth = 90 => returned.raised

C28_Witness ==
  /\ pc = "done"
  /\ ~returned.raised
  /\ preds.ndim = 1 /\ Len(preds.scores) = Len(CLASSES)
  /\ preds.scores[1] = ClipHi
  /\ \A i \in 2 .. Len(preds.scores) : preds.scores[i] = 0
  /\ returned.confidence = [ num |-> ClipHi, den |-> ClipHi + Len(CLASSES) - 1 ]
  /\ response.confidence = 10000
  /\ response.overallHealth = 99

\* C29: analyze_audio of src/main.py checks the mode, the file name, reads
\* the payload, checks its size, decodes it and predicts, in that order; the
\* first check that fails gives the response, so an invalid mode is answered
\* with 400 before the payload is read whatever the payload is, and predict
\* runs only after every earlier step succeeded
C29_FirstFailingCheckAnswers ==
  /\ endpoint = "root" /\ pc \notin { "idle", "check_mode" } /\ mode \notin ValidModes =>
       pc = "done" /\ response.status = 400 /\ stages = {}
  /\ endpoint = "root" /\ pc = "done" /\ mode \in ValidModes /\ filename = "" =>
       response.status = 400 /\ stages = {}
  /\ endpoint = "root" /\ pc = "done" /\ mode \in ValidModes /\ filename # ""
       /\ size > MAX_SIZE =>
       response.status = 413 /\ stages = { "read" }
  /\ endpoint = "root" /\ pc = "done" /\ mode \in ValidModes /\ filename # ""
       /\ size <= MAX_SIZE /\ audio # "audio" =>
       response.status = 400 /\ stages = { "read", "decode" }
  /\ endpoint = "root" /\ "read" \in stages => mode \in ValidModes /\ filename # ""
  /\ endpoint = "root" /\ "decode" \in stages => "read" \in stages /\ size <= MAX_SIZE
  /\ endpoint = "root" /\ (pc = "dummy_predict" \/ "inference" \in stages) =>
       /\ mode \in ValidModes /\ filename # "" /\ size <= MAX_SIZE
       /\ audio = "audio"
       /\ { "read", "decode" } \subseteq stages

C29_Witness ==
  /\ endpoint = "root" /\ pc = "done"
  /\ mode \notin ValidModes
  /\ size > MAX_SIZE
  /\ audio # "audio"
  /\ response.status = 400
  /\ stages = {}

\* C30: when several classes share the largest normalized score, also when
\* their raw scores differ and only the clipping makes them equal, the class
\* with the lowest catalog index is returned, so "normal" is returned
\* whenever it is among them (stated where run_inference returns)
C30_TieGoesToLowestIndex ==
  pc = "gate" /\ ~returned.raised /\ "normalize" \in stages =>
    LET raw == preds.scores
        lo(v) == IF v < ClipLo THEN ClipLo ELSE v
        c == [ i \in 1 .. Len(raw) |->
                 IF lo(raw[i]) > ClipHi THEN ClipHi ELSE lo(raw[i]) ]
        top == { i \in 1 .. Len(raw) : \A j \in 1 .. Len(raw) : c[j] <= c[i] }
    IN  /\ \A i \in top : \A j \in top : j < i => returned.label # CLASSES[i]
        /\ \E i \in top : returned.label = CLASSES[i]
        /\ 1 \in top => returned.label = "normal"

C30_Witness ==
  /\ pc = "gate"
  /\ ~returned.raised /\ "normalize" \in stages
  /\ preds.scores[1] = ClipHi
  /\ preds.scores[5] = 2 * ClipHi
  /\ returned.label = "normal"
  /\ returned.confidence = [ num |-> ClipHi, den |-> 2 * ClipHi + Len(CLASSES) - 2 ]

====
